---- MODULE Spec2Model ----
(***************************************************************************)
(* Front Matter Timestamps (Obsidian plugin), src/main.ts lines 421-932:   *)
(* the tracker slot (lastActiveFile, lastChecksum), the lifecycle handler  *)
(* handleFileChange with its await points, handleFileCreate,               *)
(* updateModifiedTime, isPathExcluded and the new-file classification;     *)
(* and the text-level merge of the earlier UpdateModifiedTimePlugin,       *)
(* src/main.ts lines 46-126 and src/unnamed/part_001 lines 47-103.         *)
(*                                                                         *)
(* Text is a sequence of one-character strings ("a/b" is <<"a","/","b">>). *)
(* An optional value (TFile | null, string | null, a header field) is the  *)
(* empty sequence or a one-element sequence.                               *)
(***************************************************************************)
EXTENDS Integers, Sequences, FiniteSets, TLC

VARIABLES
    settings,        \* FrontMatterTimestampsSettings (the fields the handlers read)
    registered,      \* onload registered the active-leaf-change handler
    vault,           \* path -> [exists, content]
    lastActiveFile,  \* TFile | null
    lastChecksum,    \* string | null
    run,             \* handler id -> the invocation in progress (position and locals)
    probe            \* inputs and result of a pure function under test

vars == <<settings, registered, vault, lastActiveFile, lastChecksum, run, probe>>

Null == <<>>
Some(x) == <<x>>
Val(o) == o[1]

----------------------------------------------------------------------------
(* Bounds of the model *)

\* longest excludedFolders list the settings tab is driven to
MaxExcluded == 1
\* isPathExcluded under test: longest path, longest folder string, longest list
MaxPathLen == 4
MaxFolderLen == 2
MaxFolders == 1
\* new-file classification under test: ctime and mtime are multiples of 100 ms
\* up to MaxTick times 100 ms; content of at most MaxTextLen characters
MaxTick == 12
MaxTextLen == 2
\* text-level merge under test: a document of at most MaxLines lines
MaxLines == 4

----------------------------------------------------------------------------
(* Text helpers: String.prototype.split("/"), Array.prototype.join("/"),   *)
(* String.prototype.trim                                                   *)

RECURSIVE Split(_)
Split(s) ==
    IF s = <<>> THEN << <<>> >>
    ELSE LET rest == Split(Tail(s)) IN
         IF Head(s) = "/" THEN << <<>> >> \o rest
         ELSE << <<Head(s)>> \o Head(rest) >> \o Tail(rest)

RECURSIVE Join(_)
Join(segs) ==
    IF Len(segs) = 0 THEN <<>>
    ELSE IF Len(segs) = 1 THEN segs[1]
    ELSE segs[1] \o <<"/">> \o Join(Tail(segs))

WhiteSpace == {" ", "\n"}

RECURSIVE TrimStart(_)
TrimStart(s) ==
    IF s # <<>> /\ Head(s) \in WhiteSpace THEN TrimStart(Tail(s)) ELSE s

RECURSIVE TrimEnd(_)
TrimEnd(s) ==
    IF s # <<>> /\ s[Len(s)] \in WhiteSpace
    THEN TrimEnd(SubSeq(s, 1, Len(s) - 1)) ELSE s

Trim(s) == TrimEnd(TrimStart(s))

\* all sequences over alphabet of length at most n
RECURSIVE StringsUpTo(_, _)
StringsUpTo(alphabet, n) ==
    IF n = 0 THEN { <<>> }
    ELSE LET shorter == StringsUpTo(alphabet, n - 1) IN
         shorter \cup { Append(s, c) : s \in shorter, c \in alphabet }

----------------------------------------------------------------------------
(* isPathExcluded, src/main.ts 480-494 *)

\* mutant: a folder name matches any single segment of the path
isPathExcludedIn_anySegment(filePath, excludedFolders) ==
    LET pathSegments == Split(filePath) IN
    \E i \in 1..Len(excludedFolders) :
        \E k \in 1..Len(pathSegments) : pathSegments[k] = excludedFolders[i]

isPathExcludedIn(filePath, excludedFolders) ==
    IF Len(excludedFolders) = 0 THEN FALSE
    ELSE LET pathSegments == Split(filePath)
             fullPathChecks ==
                 [index \in 1..Len(pathSegments) |->
                     Join(SubSeq(pathSegments, 1, index))]
         IN \E i \in 1..Len(excludedFolders) :
                \E k \in 1..Len(fullPathChecks) :
                    fullPathChecks[k] = excludedFolders[i]

isPathExcluded(filePath) == isPathExcludedIn(filePath, settings.excludedFolders)

----------------------------------------------------------------------------
(* New-file classification, src/main.ts 572-583 *)

\* newFileTolerance = 0.3 seconds, in milliseconds
NewFileToleranceMs == 300

\* moment(a).diff(moment(b), "seconds"): the difference in seconds, truncated
\* towards zero to an integer (a and b in milliseconds)
MomentDiffSeconds(a, b) ==
    IF a >= b THEN (a - b) \div 1000 ELSE 0 - ((b - a) \div 1000)

\* timeDifference <= newFileTolerance
isFileNew(stat) ==
    MomentDiffSeconds(stat.mtime, stat.ctime) * 1000 <= NewFileToleranceMs

\* currentFile.stat.size === 0 || !fileContent.trim()
isFileEmpty(size, fileContent) == size = 0 \/ Trim(fileContent) = <<>>

----------------------------------------------------------------------------
(* The vault: three files, two markdown and one of another kind that a     *)
(* MarkdownView can show once its extension is registered for that view    *)

FileA == [path |-> <<"a">>, extension |-> "md"]
FileB == [path |-> <<"d", "/", "b">>, extension |-> "md"]
FileC == [path |-> <<"c">>, extension |-> "txt"]
Files == {FileA, FileB, FileC}
Paths == {f.path : f \in Files}

\* text a user types into the body of a note
BodyChoices == { <<>>, <<"x">> }
\* a timestamp already in a header, and the one moment().format() yields
OldTime == "T0"
currentTime == "T1"
\* header of a note before the plugin touches it: [created, modified]; only
\* note a may carry an older created field
InitHeaders(f) ==
    IF f.path = <<"a">> THEN { <<Null, Null>>, <<Some(OldTime), Null>> }
    ELSE { <<Null, Null>> }
\* folder strings typed into the settings tab
FolderChoices == { <<"d">> }
\* stat.ctime and stat.mtime in milliseconds as the host reports them
StatChoices == { [ctime |-> 0, mtime |-> g] : g \in {200, 500, 1000} }

EmptyContent == [body |-> <<>>, created |-> Null, modified |-> Null]

\* the text of a file: the header block, when it has a field, then the body
Serialize(c) ==
    LET fieldLine(key, v) == IF v = Null THEN <<>> ELSE <<key, Val(v), "\n">>
        header == fieldLine("created: ", c.created) \o fieldLine("modified: ", c.modified)
    IN (IF header = <<>> THEN <<>> ELSE <<"---", "\n">> \o header \o <<"---", "\n">>)
       \o c.body

\* crypto.subtle.digest("SHA-256", ..) rendered in hex: one digest per text
Sha256Hex(text) == <<"sha256">> \o text

\* vault.read succeeds on a file that exists, unless the I/O fails
CanRead(v, file, io) == file # Null /\ v[Val(file).path].exists /\ io = "ok"

\* calculateChecksum(file, vault), src/main.ts 465-474, when the read succeeds
calculateChecksum(v, file) == Sha256Hex(Serialize(v[Val(file).path].content))

----------------------------------------------------------------------------
(* One invocation of a handler: its position and its locals, and a record  *)
(* of what it has done so far                                              *)

Handlers == {"h1", "h2"}

IdleRun ==
    [pc |-> "idle", kind |-> "none", cur |-> Null, arg |-> Null, ret |-> "none",
     stat |-> [ctime |-> 0, mtime |-> 0], isFileNew |-> FALSE,
     slot0 |-> [file |-> Null, sum |-> Null], dirty0 |-> FALSE,
     writes |-> <<>>, digests |-> <<>>, failed |-> FALSE, threw |-> FALSE,
     faults |-> {}, commands |-> 0]

\* the machine state a handler step reads and writes
Machine(h) == [r |-> run[h], laf |-> lastActiveFile, lcs |-> lastChecksum, v |-> vault]

Apply(h, m) ==
    /\ run' = [run EXCEPT ![h] = m.r]
    /\ lastActiveFile' = m.laf
    /\ lastChecksum' = m.lcs
    /\ vault' = m.v

\* whether the tracked file's content no longer has the recorded fingerprint
IsDirty(v, laf, lcs) ==
    /\ laf # Null
    /\ v[Val(laf).path].exists
    /\ lcs # Some(calculateChecksum(v, laf))

\* mutant: the comparison always reports a change
ChecksumChanged_always(lcs, checksum) == TRUE

\* this.lastChecksum !== currentChecksum, 553 and 605
ChecksumChanged(lcs, checksum) == lcs # Some(checksum)

\* the handler ends: its locals are dead, the record of what it did remains
Finish(m) ==
    [m EXCEPT !.r.pc = "done", !.r.arg = Null, !.r.ret = "none", !.r.isFileNew = FALSE]
\* an error escapes the handler: its promise rejects
Throw(m) == [Finish(m) EXCEPT !.r.threw = TRUE, !.r.failed = TRUE]
Failed(m) == [m EXCEPT !.r.failed = TRUE]
\* the awaited I/O rejects (io = "fail"): the await it happened at is recorded
Fault(m, io) == IF io = "fail" THEN [m EXCEPT !.r.faults = @ \cup {m.r.pc}] ELSE m

\* processFrontMatter(file, fn): the header fields fn sets, written back
WriteFields(m, file, op, fields) ==
    LET p == Val(file).path
        old == m.v[p].content
        new == [old EXCEPT !.created = IF "created" \in fields THEN Some(currentTime) ELSE @,
                           !.modified = IF "modified" \in fields THEN Some(currentTime) ELSE @]
    IN [m EXCEPT !.v[p].content = new,
                 !.r.writes = Append(@, [path |-> p, op |-> op,
                                         blankBefore |-> Trim(Serialize(old)) = <<>>,
                                         createdBefore |-> old.created,
                                         createdAfter |-> new.created])]

----------------------------------------------------------------------------
(* handleFileChange, src/main.ts 528-628, cut at its await points          *)

\* mutant: only lastActiveFile is cleared
ResetSlot_fileOnly(m) == Finish([m EXCEPT !.laf = Null])

\* 564-566
ResetSlot(m) == Finish([m EXCEPT !.laf = Null, !.lcs = Null])

\* mutant: the slot is updated without comparing the paths
TrackCurrentFile_always(m) ==
    [m EXCEPT !.laf = m.r.cur, !.r.pc = "track_sum", !.r.arg = m.r.cur]

\* 617-627, up to the await of calculateChecksum(currentFile)
TrackCurrentFile(m) ==
    IF m.laf = Null \/ Val(m.laf).path # Val(m.r.cur).path
    THEN [m EXCEPT !.laf = m.r.cur, !.r.pc = "track_sum", !.r.arg = m.r.cur]
    ELSE Finish(m)

\* where updateModifiedTime returns to
AfterUpdate(m) ==
    CASE m.r.ret = "nofile" -> ResetSlot(m)
      [] m.r.ret = "switch" -> TrackCurrentFile(m)
      [] OTHER -> Finish(m)

\* mutant: the excluded-folder guard of line 668 is missing
updateModifiedTime_noExclusion(m, file, ret) ==
    LET m1 == [m EXCEPT !.r.ret = ret] IN
    IF file = Null \/ Val(file).path = <<>> THEN AfterUpdate(m1)
    ELSE IF Val(file).extension # "md" THEN AfterUpdate(m1)
    ELSE [m1 EXCEPT !.r.pc = "umt_delay", !.r.arg = file]

\* mutant: updateModifiedTime records the file it stamps in the tracker slot
updateModifiedTime_tracking(m, file, ret) ==
    LET m1 == [m EXCEPT !.r.ret = ret] IN
    IF file = Null \/ Val(file).path = <<>> THEN AfterUpdate(m1)
    ELSE IF isPathExcluded(Val(file).path) THEN AfterUpdate(m1)
    ELSE IF Val(file).extension # "md" THEN AfterUpdate(m1)
    ELSE [m1 EXCEPT !.r.pc = "umt_delay", !.r.arg = file, !.laf = file]

\* updateModifiedTime, 663-682: the guards, up to the await of the delay
updateModifiedTime(m, file, ret) ==
    LET m1 == [m EXCEPT !.r.ret = ret] IN
    IF file = Null \/ Val(file).path = <<>> THEN AfterUpdate(m1)
    ELSE IF isPathExcluded(Val(file).path) THEN AfterUpdate(m1)
    ELSE IF Val(file).extension # "md" THEN AfterUpdate(m1)
    ELSE [m1 EXCEPT !.r.pc = "umt_delay", !.r.arg = file]

\* 590-599, up to the await of adapter.exists(lastActiveFile.path)
CheckLastFile(m) ==
    IF m.laf # Null /\ Val(m.laf).path # Val(m.r.cur).path
    THEN [m EXCEPT !.r.pc = "sw_exists", !.r.arg = m.laf]
    ELSE TrackCurrentFile(m)

\* mutant: the new file is tracked before its creation stamp is written
handleFileCreate_afterTracking(m, file) ==
    IF file.extension # "md" THEN CheckLastFile(m)
    ELSE [m EXCEPT !.r.pc = "hfc_delay", !.r.arg = Some(file),
                   !.laf = Some(file),
                   !.lcs = Some(calculateChecksum(m.v, Some(file)))]

\* handleFileCreate, 630-640: the guard, up to the await of the delay
handleFileCreate(m, file) ==
    IF file.extension # "md" THEN CheckLastFile(m)
    ELSE [m EXCEPT !.r.pc = "hfc_delay", !.r.arg = Some(file)]

\* 585-588
StampIfNew(m, isEmpty) ==
    IF m.r.isFileNew /\ isEmpty /\ settings.autoAddTimestamps
    THEN handleFileCreate([m EXCEPT !.r.isFileNew = FALSE], Val(m.r.cur))
    ELSE CheckLastFile([m EXCEPT !.r.isFileNew = FALSE, !.r.stat = IdleRun.stat])

\* 528-583, up to the first await
handleFileChange(m, stat) ==
    IF m.r.cur = Null
    THEN IF m.laf # Null /\ ~isPathExcluded(Val(m.laf).path)
         THEN [m EXCEPT !.r.pc = "nf_exists", !.r.arg = m.laf]
         ELSE ResetSlot(m)
    ELSE IF isPathExcluded(Val(m.r.cur).path) THEN Finish(m)
    ELSE LET m1 == [m EXCEPT !.r.stat = stat, !.r.isFileNew = isFileNew(stat)] IN
         IF ~settings.allowNonEmptyNewFile
         THEN [m1 EXCEPT !.r.pc = "read_cur", !.r.arg = m.r.cur]
         ELSE StampIfNew(m1, TRUE)

----------------------------------------------------------------------------
(* Steps of a handler: each resumes at an await and runs to the next one.  *)
(* io is the outcome of the awaited I/O: "ok", or "fail" when it rejects.  *)

IO == {"ok", "fail"}

\* the catch blocks at 557-562 and 609-614 log this.lastActiveFile.path
\* (the read of .path throws in turn when the slot holds no file)
CatchLastFile(m) ==
    IF m.laf = Null THEN Throw(m) ELSE Failed(m)

\* the active-leaf-change event: handleFileChange starts, 528-583
OnActiveLeafChange(h, cur) ==
    /\ registered
    /\ run[h].pc = "idle"
    /\ cur # Null => vault[Val(cur).path].exists
    /\ \E stat \in StatChoices :
        LET m0 == [Machine(h) EXCEPT
                      !.r = [IdleRun EXCEPT
                                !.kind = "change", !.cur = cur,
                                !.slot0 = [file |-> lastActiveFile, sum |-> lastChecksum],
                                !.dirty0 = IsDirty(vault, lastActiveFile, lastChecksum)]]
        IN Apply(h, handleFileChange(m0, stat))
    /\ UNCHANGED <<settings, registered, probe>>

\* 545-556: adapter.exists(lastActiveFile.path) resolves
NoFileExists(h, io) ==
    /\ run[h].pc = "nf_exists"
    /\ LET m == Fault(Machine(h), io) IN
       Apply(h, IF io = "fail" THEN (LET c == CatchLastFile(m) IN IF c.r.threw THEN c ELSE ResetSlot(c))
                ELSE IF vault[Val(m.r.arg).path].exists
                THEN [m EXCEPT !.r.pc = "nf_sum", !.r.arg = m.laf]
                ELSE ResetSlot(m))
    /\ UNCHANGED <<settings, registered, probe>>

\* 549-555: calculateChecksum(lastActiveFile) resolves
NoFileChecksum(h, io) ==
    /\ run[h].pc = "nf_sum"
    /\ LET m == Fault(Machine(h), io) IN
       Apply(h, IF ~CanRead(vault, m.r.arg, io) THEN (LET c == CatchLastFile(m) IN IF c.r.threw THEN c ELSE ResetSlot(c))
                ELSE LET currentChecksum == calculateChecksum(vault, m.r.arg)
                         m1 == [m EXCEPT !.r.digests = Append(@, Val(m.r.arg).path)]
                     IN IF ChecksumChanged(m.lcs, currentChecksum)
                        THEN updateModifiedTime(m1, m.laf, "nofile")
                        ELSE ResetSlot(m1))
    /\ UNCHANGED <<settings, registered, probe>>

\* 581-588: vault.read(currentFile) resolves; it is awaited outside any try
ReadCurrentFile(h, io) ==
    /\ run[h].pc = "read_cur"
    /\ LET m == Fault(Machine(h), io) IN
       Apply(h, IF ~CanRead(vault, m.r.arg, io) THEN Throw(m)
                ELSE LET fileContent == Serialize(vault[Val(m.r.arg).path].content)
                     IN StampIfNew(m, isFileEmpty(Len(fileContent), fileContent)))
    /\ UNCHANGED <<settings, registered, probe>>

\* 638-640: the delay of handleFileCreate elapses
CreateDelay(h) ==
    /\ run[h].pc = "hfc_delay"
    /\ run' = [run EXCEPT ![h].pc = "hfc_write"]
    /\ UNCHANGED <<settings, registered, vault, lastActiveFile, lastChecksum, probe>>

\* the header fields handleFileCreate sets, 644-649
CreateFields == {"created", "modified"}

\* 642-660: processFrontMatter resolves, or rejects into the catch
CreateWrite(h, io) ==
    /\ run[h].pc = "hfc_write"
    /\ LET m == Fault(Machine(h), io) IN
       Apply(h, IF ~CanRead(vault, m.r.arg, io) THEN CheckLastFile(Failed(m))
                ELSE CheckLastFile(
                        WriteFields(m, m.r.arg, "creation", CreateFields)))
    /\ UNCHANGED <<settings, registered, probe>>

\* 597-608: adapter.exists(lastActiveFile.path) resolves
SwitchExists(h, io) ==
    /\ run[h].pc = "sw_exists"
    /\ LET m == Fault(Machine(h), io) IN
       Apply(h, IF io = "fail" THEN (LET c == CatchLastFile(m) IN IF c.r.threw THEN c ELSE TrackCurrentFile(c))
                ELSE IF vault[Val(m.r.arg).path].exists
                THEN [m EXCEPT !.r.pc = "sw_sum", !.r.arg = m.laf]
                ELSE TrackCurrentFile(m))
    /\ UNCHANGED <<settings, registered, probe>>

\* 601-607: calculateChecksum(lastActiveFile) resolves
SwitchChecksum(h, io) ==
    /\ run[h].pc = "sw_sum"
    /\ LET m == Fault(Machine(h), io) IN
       Apply(h, IF ~CanRead(vault, m.r.arg, io) THEN (LET c == CatchLastFile(m) IN IF c.r.threw THEN c ELSE TrackCurrentFile(c))
                ELSE LET lastFileChecksum == calculateChecksum(vault, m.r.arg)
                         m1 == [m EXCEPT !.r.digests = Append(@, Val(m.r.arg).path)]
                     IN IF ChecksumChanged(m.lcs, lastFileChecksum)
                        THEN updateModifiedTime(m1, m.laf, "switch")
                        ELSE TrackCurrentFile(m1))
    /\ UNCHANGED <<settings, registered, probe>>

\* 680-682: the delay of updateModifiedTime elapses
UpdateDelay(h) ==
    /\ run[h].pc = "umt_delay"
    /\ run' = [run EXCEPT ![h].pc = "umt_write"]
    /\ UNCHANGED <<settings, registered, vault, lastActiveFile, lastChecksum, probe>>

\* mutant: the command is executed whether or not one is configured
executeCustomCommand_always(m) == [m EXCEPT !.r.commands = @ + 1]

\* 696-700: commands.executeCommandById(customCommand), when one is configured
executeCustomCommand(m) ==
    IF settings.customCommand # "" THEN [m EXCEPT !.r.commands = @ + 1] ELSE m

\* 684-706: processFrontMatter resolves, or rejects into the catch
UpdateWrite(h, io) ==
    /\ run[h].pc = "umt_write"
    /\ LET m == Fault(Machine(h), io) IN
       Apply(h, IF ~CanRead(vault, m.r.arg, io) THEN AfterUpdate(Failed(m))
                ELSE AfterUpdate(executeCustomCommand(
                        WriteFields(m, m.r.arg, "modified", {"modified"}))))
    /\ UNCHANGED <<settings, registered, probe>>

\* 623-626: calculateChecksum(currentFile) resolves; awaited outside any try,
\* after lastActiveFile was assigned
TrackChecksum(h, io) ==
    /\ run[h].pc = "track_sum"
    /\ LET m == Fault(Machine(h), io) IN
       Apply(h, IF ~CanRead(vault, m.r.arg, io) THEN Throw(m)
                ELSE Finish([m EXCEPT !.lcs = Some(calculateChecksum(vault, m.r.arg)),
                                      !.r.digests = Append(@, Val(m.r.arg).path)]))
    /\ UNCHANGED <<settings, registered, probe>>

\* the promise of the handler settles
Return(h) ==
    /\ run[h].pc = "done"
    /\ run' = [run EXCEPT ![h] = IdleRun]
    /\ UNCHANGED <<settings, registered, vault, lastActiveFile, lastChecksum, probe>>

\* the command "Update modified time" on the file of the active view, 501-516
ManualCommand(h, file) ==
    /\ run[h].pc = "idle"
    /\ vault[file.path].exists
    /\ LET m0 == [Machine(h) EXCEPT
                     !.r = [IdleRun EXCEPT
                               !.kind = "command", !.cur = Some(file),
                               !.slot0 = [file |-> lastActiveFile, sum |-> lastChecksum],
                               !.dirty0 = IsDirty(vault, lastActiveFile, lastChecksum)]]
       IN Apply(h, updateModifiedTime(m0, Some(file), "command"))
    /\ UNCHANGED <<settings, registered, probe>>

----------------------------------------------------------------------------
(* The user and the settings tab *)

\* the body of a file is edited
EditFile(p, body) ==
    /\ vault[p].exists
    /\ vault[p].content.body # body
    /\ vault' = [vault EXCEPT ![p].content.body = body]
    /\ UNCHANGED <<settings, registered, lastActiveFile, lastChecksum, run, probe>>

\* a file is deleted
DeleteFile(p) ==
    /\ vault[p].exists
    /\ vault' = [vault EXCEPT ![p] = [exists |-> FALSE, content |-> EmptyContent]]
    /\ UNCHANGED <<settings, registered, lastActiveFile, lastChecksum, run, probe>>

\* 755-762
ToggleAutoAddTimestamps ==
    /\ settings' = [settings EXCEPT !.autoAddTimestamps = ~@]
    /\ UNCHANGED <<registered, vault, lastActiveFile, lastChecksum, run, probe>>

\* 794-801
ToggleAllowNonEmptyNewFile ==
    /\ settings' = [settings EXCEPT !.allowNonEmptyNewFile = ~@]
    /\ UNCHANGED <<registered, vault, lastActiveFile, lastChecksum, run, probe>>

\* 864-886
AddExcludedFolder(folder) ==
    /\ Len(settings.excludedFolders) < MaxExcluded
    /\ Len(Trim(folder)) > 0
    /\ settings' = [settings EXCEPT !.excludedFolders = Append(@, Trim(folder))]
    /\ UNCHANGED <<registered, vault, lastActiveFile, lastChecksum, run, probe>>

\* 846-850
RemoveExcludedFolder(index) ==
    /\ index \in 1..Len(settings.excludedFolders)
    /\ settings' = [settings EXCEPT !.excludedFolders =
                       SubSeq(@, 1, index - 1) \o SubSeq(@, index + 1, Len(@))]
    /\ UNCHANGED <<registered, vault, lastActiveFile, lastChecksum, run, probe>>

\* the commands offered by the select of the settings tab: "None" and one
\* command of the host
CommandChoices == {"", "cmd"}

\* 915-918
SelectCustomCommand(value) ==
    /\ settings.customCommand # value
    /\ settings' = [settings EXCEPT !.customCommand = value]
    /\ UNCHANGED <<registered, vault, lastActiveFile, lastChecksum, run, probe>>

----------------------------------------------------------------------------
(* Specification: the host delivers one event at a time and the handler    *)
(* settles before the next user action                                     *)

\* 453-463
DEFAULT_SETTINGS ==
    [autoAddTimestamps |-> TRUE, allowNonEmptyNewFile |-> FALSE, excludedFolders |-> <<>>,
     customCommand |-> ""]

NoProbe == [kind |-> "none"]

InitContent(f) ==
    IF f.extension = "md"
    THEN { [body |-> b, created |-> hd[1], modified |-> hd[2]] :
              b \in BodyChoices, hd \in InitHeaders(f) }
    ELSE { [body |-> <<"x">>, created |-> Null, modified |-> Null] }

InitVaults ==
    { v \in [Paths -> UNION { { [exists |-> TRUE, content |-> c] : c \in InitContent(f) } : f \in Files }] :
        \A f \in Files : v[f.path].content \in InitContent(f) }

Init ==
    /\ settings = DEFAULT_SETTINGS
    /\ registered \in BOOLEAN
    /\ vault \in InitVaults
    /\ lastActiveFile = Null
    /\ lastChecksum = Null
    /\ run = [h \in Handlers |-> IdleRun]
    /\ probe = NoProbe

Quiet == \A h \in Handlers : run[h].pc = "idle"

Step(h) ==
    \/ \E io \in IO : NoFileExists(h, io)
    \/ \E io \in IO : NoFileChecksum(h, io)
    \/ \E io \in IO : ReadCurrentFile(h, io)
    \/ CreateDelay(h)
    \/ \E io \in IO : CreateWrite(h, io)
    \/ \E io \in IO : SwitchExists(h, io)
    \/ \E io \in IO : SwitchChecksum(h, io)
    \/ UpdateDelay(h)
    \/ \E io \in IO : UpdateWrite(h, io)
    \/ \E io \in IO : TrackChecksum(h, io)
    \/ Return(h)

User ==
    \/ \E p \in Paths, body \in BodyChoices : EditFile(p, body)
    \/ \E f \in Files : f.extension = "md" /\ DeleteFile(f.path)
    \/ ToggleAutoAddTimestamps
    \/ ToggleAllowNonEmptyNewFile
    \/ \E folder \in FolderChoices : AddExcludedFolder(folder)
    \/ \E index \in 1..MaxExcluded : RemoveExcludedFolder(index)

Next ==
    \/ Quiet /\ \E cur \in {Null} \cup {Some(f) : f \in Files} : OnActiveLeafChange("h1", cur)
    \/ Quiet /\ \E f \in Files : ManualCommand("h1", f)
    \/ Step("h1")
    \/ Quiet /\ User

Spec == Init /\ [][Next]_vars

----------------------------------------------------------------------------
(* Specification: handlers overlap.  The host delivers an active-leaf-change *)
(* event while the handler of the previous one is suspended at an await     *)
(* (h2 starts while h1 is in progress; the behaviour is followed until both *)
(* have ended).  A file can be deleted while a handler waits out the delay  *)
(* before writing to it; the user edits notes between events.  Awaited      *)
(* calls resolve, except those on a file that was deleted.                  *)

\* notes a and c hold text, note d/b is empty, no note has a header
OverlapVault ==
    [p \in Paths |->
        [exists |-> TRUE,
         content |-> [EmptyContent EXCEPT
                         !.body = IF p = FileB.path THEN <<>> ELSE <<"x">>]]]

InitOverlap ==
    /\ settings = DEFAULT_SETTINGS
    /\ registered = TRUE
    /\ vault = OverlapVault
    /\ lastActiveFile = Null
    /\ lastChecksum = Null
    /\ run = [h \in Handlers |-> IdleRun]
    /\ probe = NoProbe

\* a handler resumes; every awaited call resolves, unless its file is gone
StepOk(h) ==
    \/ NoFileExists(h, "ok")
    \/ NoFileChecksum(h, "ok")
    \/ ReadCurrentFile(h, "ok")
    \/ CreateDelay(h)
    \/ CreateWrite(h, "ok")
    \/ SwitchExists(h, "ok")
    \/ SwitchChecksum(h, "ok")
    \/ UpdateDelay(h)
    \/ UpdateWrite(h, "ok")
    \/ TrackChecksum(h, "ok")
    \/ Return(h)

\* the file a handler is about to write is deleted during the delay, 638-640
\* and 680-682
DeleteDuringDelay(h) ==
    /\ run[h].pc \in {"hfc_delay", "umt_delay"}
    /\ DeleteFile(Val(run[h].arg).path)

NextOverlap ==
    \/ Quiet /\ \E cur \in {Null} \cup {Some(f) : f \in Files} : OnActiveLeafChange("h1", cur)
    \/ run["h1"].pc # "idle"
          /\ \E cur \in {Null} \cup {Some(f) : f \in Files} : OnActiveLeafChange("h2", cur)
    \/ \E h \in Handlers : (h = "h2" => run[h].pc # "done") /\ StepOk(h)
    \/ Quiet /\ \E f \in Files, body \in BodyChoices :
                   f.extension = "md" /\ EditFile(f.path, body)
    \/ \E h \in Handlers : DeleteDuringDelay(h)

SpecOverlap == InitOverlap /\ [][NextOverlap]_vars

----------------------------------------------------------------------------
(* Specification: a command to execute after the update can be selected.   *)
(* Events and manual commands are handled one at a time, awaited calls can *)
(* reject, notes are edited and a folder can be excluded.                  *)

NextCommand ==
    \/ Quiet /\ \E cur \in {Null} \cup {Some(f) : f \in Files} : OnActiveLeafChange("h1", cur)
    \/ Quiet /\ \E f \in Files : ManualCommand("h1", f)
    \/ Step("h1")
    \/ Quiet /\ \E f \in Files, body \in BodyChoices :
                   f.extension = "md" /\ EditFile(f.path, body)
    \/ Quiet /\ \E folder \in FolderChoices : AddExcludedFolder(folder)
    \/ Quiet /\ \E value \in CommandChoices : SelectCustomCommand(value)

SpecCommand == InitOverlap /\ [][NextCommand]_vars

----------------------------------------------------------------------------
(* Specification: the user never edits.  Notes are activated, the view is  *)
(* closed, the manual command is run and the override for non-empty new    *)
(* files is switched, one at a time; every awaited call resolves.          *)

NextOwnWrites ==
    \/ Quiet /\ \E cur \in {Null} \cup {Some(f) : f \in Files} : OnActiveLeafChange("h1", cur)
    \/ Quiet /\ \E f \in Files : ManualCommand("h1", f)
    \/ StepOk("h1")
    \/ Quiet /\ ToggleAllowNonEmptyNewFile

SpecOwnWrites == InitOverlap /\ [][NextOwnWrites]_vars

----------------------------------------------------------------------------
(* isPathExcluded and the new-file classification applied to inputs drawn  *)
(* from bounded sets                                                       *)

PathAlphabet == {"a", "b", "/"}
TextAlphabet == {" ", "x"}

SeqsUpTo(S, n) == UNION { [1..k -> S] : k \in 0..n }

\* 572-583 and the condition at 586, for one stat and one content
ClassifiedNew(stat, fileContent, allowNonEmptyNewFile) ==
    /\ isFileNew(stat)
    /\ IF ~allowNonEmptyNewFile
       THEN isFileEmpty(Len(fileContent), fileContent)
       ELSE TRUE

InitProbe ==
    /\ settings = DEFAULT_SETTINGS
    /\ registered = TRUE
    /\ vault = [p \in Paths |-> [exists |-> TRUE, content |-> EmptyContent]]
    /\ lastActiveFile = Null
    /\ lastChecksum = Null
    /\ run = [h \in Handlers |-> IdleRun]
    /\ probe = NoProbe

ProbeExcluded ==
    /\ probe = NoProbe
    /\ \E filePath \in StringsUpTo(PathAlphabet, MaxPathLen),
          excludedFolders \in SeqsUpTo(StringsUpTo(PathAlphabet, MaxFolderLen), MaxFolders) :
          probe' = [kind |-> "excluded", filePath |-> filePath,
                    excludedFolders |-> excludedFolders,
                    result |-> isPathExcludedIn(filePath, excludedFolders)]
    /\ UNCHANGED <<settings, registered, vault, lastActiveFile, lastChecksum, run>>

SpecExcluded == InitProbe /\ [][ProbeExcluded]_vars

ProbeNew ==
    /\ probe = NoProbe
    /\ \E c \in 0..MaxTick, t \in 0..MaxTick,
          fileContent \in StringsUpTo(TextAlphabet, MaxTextLen),
          allowNonEmptyNewFile \in BOOLEAN :
          probe' = [kind |-> "new", ctime |-> c * 100, mtime |-> t * 100,
                    fileContent |-> fileContent,
                    allowNonEmptyNewFile |-> allowNonEmptyNewFile,
                    result |-> ClassifiedNew([ctime |-> c * 100, mtime |-> t * 100],
                                             fileContent, allowNonEmptyNewFile)]
    /\ UNCHANGED <<settings, registered, vault, lastActiveFile, lastChecksum, run>>

SpecNew == InitProbe /\ [][ProbeNew]_vars

----------------------------------------------------------------------------
(* The text-level merge: UpdateModifiedTimePlugin.updateModifiedTime of    *)
(* src/unnamed/part_001 47-103 and src/main.ts 46-126, on the characters   *)
(* of the document                                                         *)

\* s has pat at position i (1-based)
StartsWithAt(s, i, pat) ==
    /\ i >= 1
    /\ i + Len(pat) - 1 <= Len(s)
    /\ SubSeq(s, i, i + Len(pat) - 1) = pat

\* String.prototype.indexOf(pat, from), 1-based; 0 when pat does not occur
IndexOfFrom(s, pat, from) ==
    LET hits == { i \in from..Len(s) : StartsWithAt(s, i, pat) } IN
    IF hits = {} THEN 0 ELSE CHOOSE i \in hits : \A j \in hits : i <= j

Marker == <<"-", "-", "-">>
NewLine == <<"\n">>
\* characters that "." of a regular expression does not match
LineTerminators == {"\n", "\r"}

\* yamlRegex = /^---\n([\s\S]*?)\n---/ applied to text: whether it matches,
\* the captured body, and the position of the last character of the match
yamlRegex(text) ==
    LET close == IF StartsWithAt(text, 1, Marker \o NewLine)
                 THEN IndexOfFrom(text, NewLine \o Marker, 5) ELSE 0
    IN IF close = 0 THEN [found |-> FALSE, body |-> <<>>, last |-> 0]
       ELSE [found |-> TRUE, body |-> SubSeq(text, 5, close - 1), last |-> close + 3]

\* "modified:" of yamlContent.includes(..), and "modified: " of /modified: .*/
ModifiedColon == <<"m", "o", "d", "i", "f", "i", "e", "d", ":">>
ModifiedPrefix == ModifiedColon \o <<" ">>

\* position after the run of characters ".*" matches from position i
DotStarEnd(s, i) ==
    LET stops == { j \in i..Len(s) : s[j] \in LineTerminators } IN
    IF stops = {} THEN Len(s) + 1 ELSE CHOOSE j \in stops : \A k \in stops : j <= k

\* yamlContent.replace(/modified: .*/, `modified: ${currentTime}`)
ReplaceModified(yamlContent, stamp) ==
    LET at == IndexOfFrom(yamlContent, ModifiedPrefix, 1) IN
    IF at = 0 THEN yamlContent
    ELSE SubSeq(yamlContent, 1, at - 1) \o ModifiedPrefix \o stamp
         \o SubSeq(yamlContent, DotStarEnd(yamlContent, at + Len(ModifiedPrefix)),
                   Len(yamlContent))

\* the replacement patterns String.prototype.replace expands in a replacement
\* string, for a regular expression with one capture group matched at the
\* start of the text
RECURSIVE GetSubstitution(_, _, _, _)
GetSubstitution(replacement, matched, capture, after) ==
    LET at == IndexOfFrom(replacement, <<"$">>, 1) IN
    IF at = 0 \/ at = Len(replacement) THEN replacement
    ELSE LET before == SubSeq(replacement, 1, at - 1)
             c == replacement[at + 1]
             rest == SubSeq(replacement, at + 2, Len(replacement))
         IN before \o
            CASE c = "$" -> <<"$">> \o GetSubstitution(rest, matched, capture, after)
              [] c = "&" -> matched \o GetSubstitution(rest, matched, capture, after)
              [] c = "`" -> GetSubstitution(rest, matched, capture, after)
              [] c = "'" -> after \o GetSubstitution(rest, matched, capture, after)
              [] c = "1" -> capture \o GetSubstitution(rest, matched, capture, after)
              [] c = "0" /\ rest # <<>> /\ Head(rest) = "1" ->
                     capture \o GetSubstitution(Tail(rest), matched, capture, after)
              [] OTHER -> <<"$">> \o GetSubstitution(
                              SubSeq(replacement, at + 1, Len(replacement)),
                              matched, capture, after)

\* what updateModifiedTime does to the text of a markdown file: whether it
\* writes the file back, and the content of the file afterwards
MergeModified(fileContent, stamp) ==
    LET match == yamlRegex(fileContent) IN
    IF ~match.found THEN [wrote |-> FALSE, content |-> fileContent]
    ELSE LET yamlContent == match.body
             newYamlContent ==
                 IF IndexOfFrom(yamlContent, ModifiedColon, 1) # 0
                 THEN ReplaceModified(yamlContent, stamp)
                 ELSE yamlContent \o NewLine \o ModifiedPrefix \o stamp
             after == SubSeq(fileContent, match.last + 1, Len(fileContent))
             newFileContent ==
                 GetSubstitution(Marker \o NewLine \o newYamlContent \o NewLine \o Marker,
                                 SubSeq(fileContent, 1, match.last), yamlContent, after)
                 \o after
         IN [wrote |-> TRUE, content |-> newFileContent]

\* timestamps as text: one already in a header, and the one of this update
OldStamp == <<"T", "0">>
NewStamp == <<"T", "1">>

\* the lines documents under test are made of
LineChoices ==
    { Marker,
      Marker \o <<"x">>,
      ModifiedPrefix \o NewStamp,
      ModifiedPrefix \o OldStamp,
      ModifiedColon,
      <<"l", "a", "s", "t", "_">> \o ModifiedPrefix \o <<"x">>,
      <<"k", ":", " ", "$", "$">>,
      <<"k", ":", " ", "$", "&">>,
      <<"x">>,
      <<>> }

\* Array.prototype.join("\n")
RECURSIVE JoinLines(_)
JoinLines(lines) ==
    IF Len(lines) = 0 THEN <<>>
    ELSE IF Len(lines) = 1 THEN lines[1]
    ELSE lines[1] \o NewLine \o JoinLines(Tail(lines))

\* String.prototype.split("\n")
SplitLines(s) ==
    LET starts == {1} \cup { i + 1 : i \in { j \in 1..Len(s) : s[j] = "\n" } }
        start(k) == CHOOSE st \in starts : Cardinality({ t \in starts : t < st }) = k - 1
    IN [k \in 1..Cardinality(starts) |-> SubSeq(s, start(k), DotStarEnd(s, start(k)) - 1)]

\* one call of updateModifiedTime on a markdown file with the given content:
\* vault.read resolves or rejects (io); the merge is applied once more to the
\* content it left (again)
ProbeMerge ==
    /\ probe = NoProbe
    /\ \E lines \in SeqsUpTo(LineChoices, MaxLines), io \in IO :
          LET fileContent == JoinLines(lines)
              once == IF io = "ok" THEN MergeModified(fileContent, NewStamp)
                      ELSE [wrote |-> FALSE, content |-> fileContent]
          IN probe' = [kind |-> "merge", fileContent |-> fileContent, io |-> io,
                       wrote |-> once.wrote, newFileContent |-> once.content,
                       threw |-> FALSE,
                       again |-> MergeModified(once.content, NewStamp).content]
    /\ UNCHANGED <<settings, registered, vault, lastActiveFile, lastChecksum, run>>

SpecMerge == InitProbe /\ [][ProbeMerge]_vars

----------------------------------------------------------------------------
(* Properties *)

IsMarkdown(p) == \A f \in Files : f.path = p => f.extension = "md"

\* number of writes of kind op the invocation r made to path p
RECURSIVE CountWrites(_, _, _)
CountWrites(ws, p, op) ==
    IF ws = <<>> THEN 0
    ELSE (IF Head(ws).path = p /\ Head(ws).op = op THEN 1 ELSE 0)
         + CountWrites(Tail(ws), p, op)

Digested(r, p) == \E i \in 1..Len(r.digests) : r.digests[i] = p

\* a lifecycle handler has finished, having started in TRACKING(path, fingerprint)
EndedTracking(r) ==
    r.pc = "done" /\ r.kind = "change" /\ r.slot0.file # Null /\ r.slot0.sum # Null

\* the handler was a switch away from the tracked file
SwitchedAway(r) ==
    EndedTracking(r) /\ (r.cur = Null \/ Val(r.cur).path # Val(r.slot0.file).path)

\* C1: a tracked markdown file outside the excluded folders whose content no
\* longer has the recorded fingerprint gets exactly one modified stamp when the
\* user switches away from it, to another file or to none (no I/O failing).
C1_ExactlyOneStampOnSwitchAway ==
    \A h \in Handlers :
        LET r == run[h] IN
        (/\ SwitchedAway(r)
         /\ r.dirty0
         /\ Val(r.slot0.file).extension = "md"
         /\ ~isPathExcluded(Val(r.slot0.file).path)
         /\ ~r.failed)
        => CountWrites(r.writes, Val(r.slot0.file).path, "modified") = 1

\* C2: a tracked file whose content still has the recorded fingerprint gets no
\* modified stamp from the lifecycle handler, whatever the event.
C2_UnchangedNeverStamped ==
    \A h \in Handlers :
        LET r == run[h] IN
        (r.kind = "change" /\ r.slot0.file # Null /\ ~r.dirty0)
        => CountWrites(r.writes, Val(r.slot0.file).path, "modified") = 0

\* C2 witness: a switch away from a tracked, existing, unchanged markdown file
\* has finished; its fingerprint was recomputed and nothing was stamped
C2_Witness ==
    \E h \in Handlers :
        LET r == run[h] IN
        /\ SwitchedAway(r)
        /\ ~r.dirty0
        /\ Val(r.slot0.file).extension = "md"
        /\ ~isPathExcluded(Val(r.slot0.file).path)
        /\ Digested(r, Val(r.slot0.file).path)
        /\ ~r.failed
        /\ CountWrites(r.writes, Val(r.slot0.file).path, "modified") = 0

\* C3: when a file with another path than the tracked one becomes active, the
\* tracked file is stale-checked whenever it is not excluded itself, and the
\* slot ends as TRACKING(newPath, fingerprint(newContent)) (no I/O failing).
C3_SwitchChecksPreviousAndTracksNew ==
    \A h \in Handlers :
        LET r == run[h] IN
        (SwitchedAway(r) /\ r.cur # Null /\ ~r.failed)
        => /\ (/\ ~isPathExcluded(Val(r.slot0.file).path)
               /\ vault[Val(r.slot0.file).path].exists)
              => Digested(r, Val(r.slot0.file).path)
           /\ lastActiveFile = r.cur
           /\ lastChecksum = Some(calculateChecksum(vault, r.cur))

\* C4: a lifecycle event handled while no file is active leaves the slot EMPTY.
C4_NoFileEmptiesSlot ==
    \A h \in Handlers :
        LET r == run[h] IN
        (r.pc = "done" /\ r.kind = "change" /\ r.cur = Null)
        => (lastActiveFile = Null /\ lastChecksum = Null)

\* C4 witness: such a handler has finished after an I/O failure while a file
\* was tracked
C4_Witness ==
    \E h \in Handlers :
        LET r == run[h] IN
        /\ EndedTracking(r) /\ r.cur = Null /\ r.failed
        /\ ~isPathExcluded(Val(r.slot0.file).path)
        /\ lastActiveFile = Null /\ lastChecksum = Null

BoundaryPrefixes(filePath) ==
    { SubSeq(filePath, 1, j) : j \in { k \in 0..Len(filePath) :
                                          k = Len(filePath) \/ filePath[k + 1] = "/" } }

\* C6: isPathExcluded(path) is true iff a configured string equals a prefix of
\* the path that ends at a segment boundary; "a/b" is not excluded by "b", and
\* an empty list excludes nothing.
C6_ExcludedIffSegmentPrefix ==
    probe.kind = "excluded" =>
        /\ probe.result <=>
              \E i \in 1..Len(probe.excludedFolders) :
                  probe.excludedFolders[i] \in BoundaryPrefixes(probe.filePath)
        /\ probe.excludedFolders = <<>> => ~probe.result
        /\ (probe.filePath = <<"a", "/", "b">> /\ probe.excludedFolders = << <<"b">> >>)
              => ~probe.result

\* C6 witness: "a/b" is excluded by the folder "a"
C6_Witness ==
    /\ probe.kind = "excluded"
    /\ probe.filePath = <<"a", "/", "b">>
    /\ probe.excludedFolders = << <<"a">> >>
    /\ probe.result

\* C7: a file is classified as new exactly when mtime - ctime is at most 0.3
\* seconds and its content is empty (blank) or the override is set.
C7_NewIffWithinTolerance ==
    probe.kind = "new" =>
        (probe.result <=>
            /\ probe.mtime - probe.ctime <= NewFileToleranceMs
            /\ (Trim(probe.fileContent) = <<>> \/ probe.allowNonEmptyNewFile))

\* C8: a creation stamp never overwrites a created field the header already has.
C8_CreatedNeverOverwritten ==
    \A h \in Handlers :
        \A i \in 1..Len(run[h].writes) :
            LET w == run[h].writes[i] IN
            (w.op = "creation" /\ w.createdBefore # Null)
            => w.createdAfter = w.createdBefore

\* C9: a creation stamp is written only if auto-timestamp-on-create is on, the
\* file is markdown, its path is not excluded, its timestamp gap is within the
\* 0.3 s tolerance and its content is empty or the override is set.
C9_CreationStampOnlyIfNew ==
    \A h \in Handlers :
        \A i \in 1..Len(run[h].writes) :
            LET w == run[h].writes[i] IN
            w.op = "creation"
            => /\ settings.autoAddTimestamps
               /\ IsMarkdown(w.path)
               /\ ~isPathExcluded(w.path)
               /\ run[h].stat.mtime - run[h].stat.ctime <= NewFileToleranceMs
               /\ (w.blankBefore \/ settings.allowNonEmptyNewFile)

\* C10: no entry point writes to a file that is not markdown or whose path is
\* excluded, and the manual command on such a file ends without any error.
C10_NoWriteToSkippedFiles ==
    \A h \in Handlers :
        LET r == run[h] IN
        /\ \A i \in 1..Len(r.writes) :
              IsMarkdown(r.writes[i].path) /\ ~isPathExcluded(r.writes[i].path)
        /\ (/\ r.pc = "done" /\ r.kind = "command"
            /\ (Val(r.cur).extension # "md" \/ isPathExcluded(Val(r.cur).path)))
           => (r.writes = <<>> /\ ~r.failed /\ ~r.threw)

\* C10 witness: a switch away from a tracked file that changed and is excluded
\* or not markdown has finished; it was stale-checked and nothing was written
C10_Witness ==
    \E h \in Handlers :
        LET r == run[h] IN
        /\ SwitchedAway(r)
        /\ r.dirty0
        /\ (Val(r.slot0.file).extension # "md" \/ isPathExcluded(Val(r.slot0.file).path))
        /\ Digested(r, Val(r.slot0.file).path)
        /\ r.writes = <<>>
        /\ ~r.failed

----------------------------------------------------------------------------
(* Properties of the text-level merge, on the lines of the document       *)

\* the position of the closing marker line of the header block (the first
\* line "---" after an opening line "---"); 0 when there is no header block
HeaderClose(lines) ==
    LET marks == { i \in 2..Len(lines) : lines[i] = Marker } IN
    IF Len(lines) = 0 \/ lines[1] # Marker \/ marks = {} THEN 0
    ELSE CHOOSE i \in marks : \A j \in marks : i <= j

\* a line "modified: <anything>"
IsModifiedLine(line) == StartsWithAt(line, 1, ModifiedPrefix)

\* the positions of the lines "modified: <anything>" of the header body
ModifiedLines(lines) ==
    { i \in 2..(HeaderClose(lines) - 1) : IsModifiedLine(lines[i]) }

\* every line of the document but the "modified" lines of its header body
OtherLines(lines) ==
    LET close == HeaderClose(lines)
        Other(line) == ~IsModifiedLine(line)
    IN SubSeq(lines, 1, 1) \o SelectSeq(SubSeq(lines, 2, close - 1), Other)
       \o SubSeq(lines, close, Len(lines))

\* the merge as specified: the value of the first "modified" line replaced,
\* or a "modified" line added as the last line of the header body
ExpectedMerge(lines, stamp) ==
    LET close == HeaderClose(lines)
        mods == ModifiedLines(lines)
    IN IF mods # {}
       THEN [lines EXCEPT ![CHOOSE i \in mods : \A j \in mods : i <= j] =
                ModifiedPrefix \o stamp]
       ELSE SubSeq(lines, 1, close - 1) \o << ModifiedPrefix \o stamp >>
            \o SubSeq(lines, close, Len(lines))

MergeRan == probe.kind = "merge" /\ probe.io = "ok"

\* C11: merging modified=T into a document whose header holds the line
\* "modified: T" (and no other "modified" line) leaves it byte-identical, and
\* merging modified=T twice gives the same content as merging it once.
C11_MergeIdempotent ==
    MergeRan =>
        LET lines == SplitLines(probe.fileContent) IN
        /\ (\E i \in 2..(HeaderClose(lines) - 1) :
                  /\ lines[i] = ModifiedPrefix \o NewStamp
                  /\ ModifiedLines(lines) = {i})
               => probe.newFileContent = probe.fileContent
        /\ probe.again = probe.newFileContent

\* C12: merging the "modified" key leaves every other line of the header body
\* unchanged and in order (lines such as "last_modified: x" and lines with "$"
\* included), and everything outside the header block byte for byte.
C12_MergePreservesOtherLines ==
    MergeRan /\ HeaderClose(SplitLines(probe.fileContent)) # 0 =>
        /\ HeaderClose(SplitLines(probe.newFileContent)) # 0
        /\ OtherLines(SplitLines(probe.newFileContent))
               = OtherLines(SplitLines(probe.fileContent))

\* C13: a document that does not start with an opening marker line followed
\* later by a closing marker line is left unchanged, nothing is written back,
\* and no error is raised.
C13_NoHeaderNoOp ==
    MergeRan /\ HeaderClose(SplitLines(probe.fileContent)) = 0 =>
        /\ ~probe.wrote
        /\ probe.newFileContent = probe.fileContent
        /\ ~probe.threw

\* C14: with a line "modified: <anything>" in the header body the result
\* differs from the input only in that line's value, which is the new
\* timestamp; without one the result is the input with one line
\* "modified: <timestamp>" added as the last line of the header body.
C14_MergeResult ==
    MergeRan /\ HeaderClose(SplitLines(probe.fileContent)) # 0 =>
        probe.newFileContent
            = JoinLines(ExpectedMerge(SplitLines(probe.fileContent), NewStamp))

----------------------------------------------------------------------------
(* Properties of the handlers: deleted files, failures, writers of the slot *)

\* the run r made a write of any kind to path p
Wrote(r, p) == \E i \in 1..Len(r.writes) : r.writes[i].path = p

\* the awaits of handleFileChange at which the tracked document is read,
\* digested or stamped
TrackedFileAwaits == {"nf_sum", "sw_sum", "umt_write"}

\* C15: when the tracked document no longer exists at the next lifecycle
\* event (and no I/O call fails), it is not digested, nothing is written to
\* it, no error is caught or thrown, and the slot becomes EMPTY (no active
\* file) or TRACKING of the newly active document.
C15_DeletedTrackedFileSkipped ==
    \A h \in Handlers :
        LET r == run[h] IN
        (/\ r.pc = "done" /\ r.kind = "change"
         /\ r.slot0.file # Null
         /\ ~vault[Val(r.slot0.file).path].exists
         /\ r.faults = {})
        => /\ ~Digested(r, Val(r.slot0.file).path)
           /\ ~Wrote(r, Val(r.slot0.file).path)
           /\ ~r.failed /\ ~r.threw
           /\ IF r.cur = Null
              THEN lastActiveFile = Null /\ lastChecksum = Null
              ELSE /\ lastActiveFile = r.cur
                   /\ lastChecksum = Some(calculateChecksum(vault, r.cur))

\* C17: when reading, digesting or stamping the tracked document fails during
\* a lifecycle event, the slot keeps the pair (path, fingerprint) it had.
C17_FailureKeepsSlot ==
    \A h \in Handlers :
        LET r == run[h] IN
        (/\ r.pc = "done" /\ r.kind = "change"
         /\ r.slot0.file # Null /\ r.slot0.sum # Null
         /\ r.faults # {} /\ r.faults \subseteq TrackedFileAwaits)
        => /\ lastActiveFile = r.slot0.file
           /\ lastChecksum = r.slot0.sum

\* C18: no failure escapes a handler as a rejected promise.
C18_NoFailureEscapes ==
    \A h \in Handlers : ~run[h].threw

SlotUnchanged == lastActiveFile' = lastActiveFile /\ lastChecksum' = lastChecksum

\* the awaits inside handleFileCreate and updateModifiedTime
CalleeAwaits == {"hfc_delay", "hfc_write", "umt_delay", "umt_write"}

\* C20: the slot is written by handleFileChange only: a step of the manual
\* command (updateModifiedTime) or of the settings tab leaves it unchanged; so
\* does a step inside handleFileCreate or updateModifiedTime, and when the
\* slot changes in the step that returns from one of them it is
\* handleFileChange, running on to lines 564-565 or 622, that writes it.
C20_OnlyHandleFileChangeWritesSlot ==
    [][\A h \in Handlers :
          /\ (\A g \in Handlers : run[g].kind # "change" /\ run'[g].kind # "change")
                => SlotUnchanged
          /\ (run[h].pc \in CalleeAwaits /\ run'[h].pc \in CalleeAwaits)
                => SlotUnchanged
          /\ (run[h].pc \in CalleeAwaits /\ ~SlotUnchanged)
                => /\ run[h].kind = "change"
                   /\ \/ run'[h].pc = "track_sum" /\ lastActiveFile' = run[h].cur
                                                 /\ lastChecksum' = lastChecksum
                      \/ run'[h].pc = "done" /\ run[h].ret = "nofile"
                                            /\ lastActiveFile' = Null
                                            /\ lastChecksum' = Null]_vars

\* a manual command has stamped a file other than the tracked one
C20_Witness ==
    \E h \in Handlers :
        /\ run[h].pc = "done" /\ run[h].kind = "command"
        /\ Len(run[h].writes) = 1
        /\ lastActiveFile # Null /\ lastChecksum # Null
        /\ lastActiveFile # run[h].cur

----------------------------------------------------------------------------
(* Properties of overlapping handlers *)

\* C16: when the newly created document was deleted during the delay of its
\* creation stamp, the stamp attempt is a silent no-op: resuming after the
\* delay, handleFileCreate catches and logs no error.
C16_DeletedDuringDelayIsSilent ==
    [][\A h \in Handlers :
          (/\ run[h].pc = "hfc_write"
           /\ ~vault[Val(run[h].arg).path].exists
           /\ run'[h].pc # "hfc_write")
          => run'[h].failed = run[h].failed]_vars

\* modified stamps written to path p by the two handlers together
StampsOf(p) ==
    CountWrites(run["h1"].writes, p, "modified")
        + CountWrites(run["h2"].writes, p, "modified")

\* C19: when the handlers of two events overlap, a document whose content did
\* not change since it was tracked is never stamped and a change is never
\* stamped twice: at most one modified stamp is written, and only to the
\* document that was tracked and changed when the first event arrived.
C19_OverlapNeverStampsUnchangedOrTwice ==
    (/\ run["h1"].pc = "done" /\ run["h1"].kind = "change"
     /\ run["h2"].pc = "done" /\ run["h2"].kind = "change")
    => \A p \in Paths :
          StampsOf(p) <= IF /\ run["h1"].slot0.file # Null
                            /\ Val(run["h1"].slot0.file).path = p
                            /\ run["h1"].dirty0
                         THEN 1 ELSE 0

----------------------------------------------------------------------------
(* Properties of the command executed after the update *)

\* modified stamps the run r wrote, to any file
ModifiedStamps(r) ==
    Cardinality({ i \in 1..Len(r.writes) : r.writes[i].op = "modified" })

\* C21: the configured command is executed once per modified stamp written
\* successfully and never otherwise: not when the update is skipped, not when
\* the write fails, not when no command is configured.
C21_CommandOncePerStamp ==
    \A h \in Handlers :
        run[h].commands = IF settings.customCommand # ""
                          THEN ModifiedStamps(run[h]) ELSE 0

\* a manual update has stamped a file and executed the configured command
C21_Witness ==
    \E h \in Handlers :
        /\ run[h].pc = "done" /\ run[h].kind = "command"
        /\ settings.customCommand # ""
        /\ run[h].commands = 1 /\ ModifiedStamps(run[h]) = 1

----------------------------------------------------------------------------
(* Properties of the plugin's own writes *)

\* C22: the plugin's own writes are not detected as content changes: when the
\* user makes no edit, no lifecycle event writes a modified stamp, whatever
\* the manual command or a creation stamp wrote to the tracked document.
C22_OwnWritesNotDetected ==
    \A h \in Handlers :
        run[h].kind = "change" => ModifiedStamps(run[h]) = 0

----------------------------------------------------------------------------
(* Properties of the tracking slot between events *)

\* C23: slot consistency: in every state where no lifecycle handler is in
\* progress, lastActiveFile and lastChecksum are either both null or both
\* non-null, after any sequence of events, failed reads and digests included.
C23_SlotConsistent ==
    Quiet => (lastActiveFile = Null <=> lastChecksum = Null)

----------------------------------------------------------------------------
(* Order of the stamps and of the tracking within one handleFileChange *)

\* the awaits of handleFileChange that come before the slot is set at 617-627
AwaitsBeforeTracking ==
    {"read_cur", "hfc_delay", "hfc_write", "sw_exists", "sw_sum", "umt_delay", "umt_write"}

\* the document that became active was not the tracked one
NotYetTracked(r) ==
    /\ r.kind = "change" /\ r.cur # Null
    /\ r.slot0.file = Null \/ Val(r.slot0.file).path # Val(r.cur).path

CreationStamped(r) ==
    \E i \in 1..Len(r.writes) :
        r.writes[i].op = "creation" /\ r.writes[i].path = Val(r.cur).path

\* C24: when a document that is not yet tracked becomes active, the slot keeps
\* its value while the creation stamp of the new document and the stale check
\* and stamp of the previously tracked one are pending, and once the slot is
\* set to the new document the fingerprint recorded for it is the one of its
\* content after the stamps were written.
C24_StampsBeforeTracking ==
    \A h \in Handlers :
        LET r == run[h] IN
        NotYetTracked(r) =>
            /\ r.pc \in AwaitsBeforeTracking =>
                    /\ lastActiveFile = r.slot0.file
                    /\ lastChecksum = r.slot0.sum
            /\ r.pc = "track_sum" => lastActiveFile = r.cur
            /\ (r.pc = "done" /\ ~r.threw /\ lastActiveFile = r.cur) =>
                    lastChecksum = Some(calculateChecksum(vault, r.cur))

\* a new note was stamped on creation, the edited note tracked before it was
\* stamped as modified, and the new note is now tracked with the fingerprint
\* of its stamped content
C24_Witness ==
    \E h \in Handlers :
        LET r == run[h] IN
        /\ NotYetTracked(r) /\ r.pc = "done" /\ ~r.threw
        /\ r.slot0.file # Null
        /\ Len(r.writes) = 2
        /\ CreationStamped(r)
        /\ r.writes[2].op = "modified" /\ r.writes[2].path = Val(r.slot0.file).path
        /\ lastActiveFile = r.cur
        /\ vault[Val(r.cur).path].content.created = Some(currentTime)
        /\ lastChecksum = Some(calculateChecksum(vault, r.cur))

====
